---- MODULE Spec2Model ----
(***************************************************************************)
(* A model of gas-aws: AWS Signature Version 4 request signing             *)
(* (src/main.ts, namespace AWS: request and its helpers), the process-wide *)
(* default configuration (src/config.ts) and the Lambda.invoke client.     *)
(*                                                                         *)
(* JavaScript strings are TLA+ strings, taken apart one character at a     *)
(* time with SubSeq.  The external Crypto library is stood in for by a     *)
(* 15-bit polynomial digest: SHA256 renders it as lowercase hex, and       *)
(* HmacSHA256 is the keyed, nested digest H(key, H(key, message)).  A      *)
(* JavaScript object is the sequence of its own <<key, value>> pairs in    *)
(* insertion order.  An optional value is a sequence of length at most     *)
(* one: <<>> is undefined/null, <<v>> is v.                                *)
(***************************************************************************)
EXTENDS Integers, Sequences, FiniteSets, TLC

VARIABLES
  config,        \* AWS.config: the process-wide default configuration
  params,        \* the caller's RequestParams object (headers mutated in place)
  supplied,      \* the headers mapping as the caller built it (history)
  calls,         \* number of AWS.request calls made with this params object
  outcome,       \* what the last AWS.request call did (thrown / fetched)
  query,         \* a query object handed to getCanonicalQueryString
  queryString,   \* the last result of getCanonicalQueryString, if any
  invocation     \* what the last Lambda.invoke call did (thrown / returned)

vars == <<config, params, supplied, calls, outcome, query, queryString, invocation>>

(***************************************************************************)
(* Optional values, strings and characters                                 *)
(***************************************************************************)
Undefined == <<>>

Some(v) == <<v>>

\* a ?? b
Coalesce(o, d) == IF o # Undefined THEN o[1] ELSE d

\* The characters the model uses, in ascending code-point order, so that the
\* position of a character orders it as its UTF-16 code unit does.
AsciiOrder == "\n \"%&()+,-./0123456789:;=ABCDEFGHIJKLMNOPQRSTUVWXYZ_abcdefghijklmnopqrstuvwxyz{}"

UpperCase == "ABCDEFGHIJKLMNOPQRSTUVWXYZ"

LowerCase == "abcdefghijklmnopqrstuvwxyz"

\* Characters encodeURIComponent leaves alone (of those in AsciiOrder).
Unreserved == "()-.0123456789ABCDEFGHIJKLMNOPQRSTUVWXYZ_abcdefghijklmnopqrstuvwxyz"

UnreservedSet == {SubSeq(Unreserved, i, i) : i \in 1..Len(Unreserved)}

CharAt(s, i) == SubSeq(s, i, i)

IndexIn(c, alphabet) ==
  IF \E i \in 1..Len(alphabet) : CharAt(alphabet, i) = c
  THEN CHOOSE i \in 1..Len(alphabet) : CharAt(alphabet, i) = c
  ELSE 0

CodeTable == [c \in {CharAt(AsciiOrder, i) : i \in 1..Len(AsciiOrder)} |-> IndexIn(c, AsciiOrder)]

CharCode(c) == IF c \in DOMAIN CodeTable THEN CodeTable[c] ELSE 0

LowerTable == [c \in {CharAt(UpperCase, i) : i \in 1..26} |-> CharAt(LowerCase, IndexIn(c, UpperCase))]

UpperTable == [c \in {CharAt(LowerCase, i) : i \in 1..26} |-> CharAt(UpperCase, IndexIn(c, LowerCase))]

LowerChar(c) == IF c \in DOMAIN LowerTable THEN LowerTable[c] ELSE c

UpperChar(c) == IF c \in DOMAIN UpperTable THEN UpperTable[c] ELSE c

\* The percent-encoding of one character
PercentEncode(c) ==
  IF c \in UnreservedSet THEN c
  ELSE CASE c = " " -> "%20"
         [] c = "\"" -> "%22"
         [] c = "%" -> "%25"
         [] c = "&" -> "%26"
         [] c = "+" -> "%2B"
         [] c = "," -> "%2C"
         [] c = "/" -> "%2F"
         [] c = ":" -> "%3A"
         [] c = ";" -> "%3B"
         [] c = "=" -> "%3D"
         [] c = "{" -> "%7B"
         [] c = "}" -> "%7D"

\* What each per-character transformation makes of the character s[i]:
\*   "lower", "upper"  toLowerCase, toUpperCase
\*   "collapse"        replace(/\s{2,}/g, ' '): a space before a space is dropped
\*   "component"       encodeURIComponent
\*   "path"            encodeURIComponent of each part between slashes
\*   "uri"             encodeURI: the reserved characters are kept
CharMap(how, s, i) ==
  LET c == CharAt(s, i)
  IN  CASE how = "lower" -> LowerChar(c)
        [] how = "upper" -> UpperChar(c)
        [] how = "collapse" ->
             IF c = " " /\ i < Len(s) /\ CharAt(s, i + 1) = " " THEN "" ELSE c
        [] how = "component" -> PercentEncode(c)
        [] how = "path" -> IF c = "/" THEN "/" ELSE PercentEncode(c)
        [] how = "uri" ->
             IF c \in {";", "/", ":", "&", "=", "+", ","} THEN c ELSE PercentEncode(c)

\* The transformation applied to s[i..j], the pieces concatenated; the range
\* is halved at each step so that the evaluation stays shallow on long strings.
RECURSIVE MapRange(_, _, _, _)
MapRange(how, s, i, j) ==
  IF i > j THEN ""
  ELSE IF i = j THEN CharMap(how, s, i)
  ELSE MapRange(how, s, i, (i + j) \div 2) \o MapRange(how, s, ((i + j) \div 2) + 1, j)

\* String.prototype.toLowerCase / toUpperCase
ToLowerCase(s) == MapRange("lower", s, 1, Len(s))

ToUpperCase(s) == MapRange("upper", s, 1, Len(s))

\* s.replace(/\s{2,}/g, ' ')
CollapseSpaces(s) == MapRange("collapse", s, 1, Len(s))

encodeURIComponent(s) == MapRange("component", s, 1, Len(s))

\* path.split(/\//g).map(encodeURIComponent).join('/')
NormalizedPath(path) == MapRange("path", path, 1, Len(path))

encodeURI(s) == MapRange("uri", s, 1, Len(s))

\* String.prototype.trim (the model's only whitespace character is the space)
RECURSIVE TrimStart(_)
TrimStart(s) ==
  IF Len(s) > 0 /\ CharAt(s, 1) = " " THEN TrimStart(SubSeq(s, 2, Len(s))) ELSE s

RECURSIVE TrimEnd(_)
TrimEnd(s) ==
  IF Len(s) > 0 /\ CharAt(s, Len(s)) = " " THEN TrimEnd(SubSeq(s, 1, Len(s) - 1)) ELSE s

Trim(s) == TrimEnd(TrimStart(s))

\* a < b for JavaScript strings: lexicographic on code units
RECURSIVE StrLess(_, _)
StrLess(a, b) ==
  IF Len(b) = 0 THEN FALSE
  ELSE IF Len(a) = 0 THEN TRUE
  ELSE IF CharAt(a, 1) = CharAt(b, 1)
       THEN StrLess(SubSeq(a, 2, Len(a)), SubSeq(b, 2, Len(b)))
       ELSE CharCode(CharAt(a, 1)) < CharCode(CharAt(b, 1))

StrGreater(a, b) == StrLess(b, a)

\* Number-to-string conversion of a natural number
RECURSIVE NumberToString(_)
NumberToString(n) ==
  IF n < 10 THEN CharAt("0123456789", n + 1)
  ELSE NumberToString(n \div 10) \o CharAt("0123456789", (n % 10) + 1)

\* Array.prototype.join
RECURSIVE Join(_, _)
Join(parts, sep) ==
  IF Len(parts) = 0 THEN ""
  ELSE IF Len(parts) = 1 THEN parts[1]
  ELSE parts[1] \o sep \o Join(Tail(parts), sep)

\* The comparator returns 1: a > b for strings, a[0] > b[0] for header pairs
Greater(byKey, a, b) == IF byKey THEN StrGreater(a[1], b[1]) ELSE StrGreater(a, b)

\* Array.prototype.sort with such a comparator: a stable sort, in which the
\* elements the comparator does not order keep their order.
RECURSIVE InsertSorted(_, _, _)
InsertSorted(byKey, sorted, x) ==
  IF Len(sorted) = 0 THEN <<x>>
  ELSE IF Greater(byKey, sorted[Len(sorted)], x)
       THEN Append(InsertSorted(byKey, SubSeq(sorted, 1, Len(sorted) - 1), x),
                   sorted[Len(sorted)])
       ELSE Append(sorted, x)

RECURSIVE SortBy(_, _)
SortBy(byKey, xs) ==
  IF Len(xs) = 0 THEN <<>>
  ELSE InsertSorted(byKey, SortBy(byKey, SubSeq(xs, 1, Len(xs) - 1)), xs[Len(xs)])

(***************************************************************************)
(* JavaScript objects as insertion-ordered sequences of <<key, value>>     *)
(***************************************************************************)
HasKey(obj, k) == \E i \in 1..Len(obj) : obj[i][1] = k

KeyIndex(obj, k) == CHOOSE i \in 1..Len(obj) : obj[i][1] = k

\* obj[k]
Get(obj, k) == obj[KeyIndex(obj, k)][2]

\* obj[k] = v: an existing own property keeps its place
Put(obj, k, v) ==
  IF HasKey(obj, k)
  THEN [obj EXCEPT ![KeyIndex(obj, k)] = <<k, v>>]
  ELSE Append(obj, <<k, v>>)

\* delete obj[k]
Delete(obj, k) ==
  IF HasKey(obj, k)
  THEN SubSeq(obj, 1, KeyIndex(obj, k) - 1) \o SubSeq(obj, KeyIndex(obj, k) + 1, Len(obj))
  ELSE obj

(***************************************************************************)
(* getCanonicalQueryString                                                 *)
(***************************************************************************)
\* A query value: null/undefined, a string or a number
NullValue == [kind |-> "null", s |-> "", n |-> 0]

Str(s) == [kind |-> "string", s |-> s, n |-> 0]

Num(n) == [kind |-> "number", s |-> "", n |-> n]

\* part[1] != null ? part[1] : '', then ToString (inside encodeURIComponent)
QueryValueString(v) ==
  IF v.kind = "null" THEN ""
  ELSE IF v.kind = "number" THEN NumberToString(v.n)
  ELSE v.s

QueryToken(part) ==
  encodeURIComponent(Trim(part[1])) \o "=" \o encodeURIComponent(QueryValueString(part[2]))

QueryTokens(q) == [i \in 1..Len(q) |-> QueryToken(q[i])]

\* (mutant) the sort step left out: tokens stay in insertion order
SortedTokensUnsorted(tokens) == tokens

\* .sort((a, b) => a === b ? 0 : a > b ? 1 : -1)
SortedTokens(tokens) == SortBy(FALSE, tokens)

getCanonicalQueryString(q) == Join(SortedTokens(QueryTokens(q)), "&")

(***************************************************************************)
(* Bounds and input sets of the query specification                        *)
(***************************************************************************)
MaxPairs == 3

QueryKeys == {"a", "b", "a-", " a"}

QueryValues == {NullValue, Num(1), Num(2), Str("x y")}

InitQuery ==
  /\ query = <<>>
  /\ queryString = Undefined

\* query[k] = v by the caller
QuerySet(k, v) ==
  /\ HasKey(query, k) \/ Len(query) < MaxPairs
  /\ query' = Put(query, k, v)
  /\ queryString' = Undefined

\* delete query[k] by the caller
QueryDelete(k) ==
  /\ HasKey(query, k)
  /\ query' = Delete(query, k)
  /\ queryString' = Undefined

Canonicalize ==
  /\ queryString = Undefined
  /\ queryString' = Some(getCanonicalQueryString(query))
  /\ UNCHANGED query

(***************************************************************************)
(* Crypto (external library): digests over the model's strings             *)
(***************************************************************************)
HexDigits == "0123456789abcdef"

ByteDigits == "0123456789ABCDEF"

\* 31^n modulo 32768
RECURSIVE Pow31(_)
Pow31(n) ==
  IF n = 0 THEN 1
  ELSE LET h == Pow31(n \div 2)
       IN  (((h * h) % 32768) * (IF n % 2 = 1 THEN 31 ELSE 1)) % 32768

\* A 15-bit polynomial digest of s[i..j]: the sum of (code + 1) * 31^(j - k)
RECURSIVE DigestRange(_, _, _)
DigestRange(s, i, j) ==
  IF i > j THEN 0
  ELSE IF i = j THEN CharCode(CharAt(s, i)) + 1
  ELSE LET m == (i + j) \div 2
       IN  (DigestRange(s, i, m) * Pow31(j - m) + DigestRange(s, m + 1, j)) % 32768

Digest(s) == (7 * Pow31(Len(s)) + DigestRange(s, 1, Len(s))) % 32768

Render(n, digits) ==
  CharAt(digits, ((n \div 4096) % 16) + 1) \o CharAt(digits, ((n \div 256) % 16) + 1)
    \o CharAt(digits, ((n \div 16) % 16) + 1) \o CharAt(digits, (n % 16) + 1)

\* Crypto.SHA256(message): the digest as a lowercase hex string
SHA256(message) == Render(Digest("sha256:" \o message), HexDigits)

\* Crypto.HmacSHA256(message, key, {asBytes}): H(key | H(key | message)); raw
\* bytes are written in capitals to tell them from the lowercase hex string.
HmacSHA256(message, key, asBytes) ==
  Render(Digest("hmac:" \o key \o "/" \o Render(Digest(key \o "/" \o message), ByteDigits)),
         IF asBytes THEN ByteDigits ELSE HexDigits)

(***************************************************************************)
(* calculateSignature, dates, getCanonicalRequestHash                      *)
(***************************************************************************)
\* (mutant) region and service fed to the chain in the wrong order
calculateSignatureSwapped(key, dateStamp, regionName, serviceName, stringToSign) ==
  LET kDate == HmacSHA256(dateStamp, "AWS4" \o key, TRUE)
      kRegion == HmacSHA256(serviceName, kDate, TRUE)
      kService == HmacSHA256(regionName, kRegion, TRUE)
      kSigning == HmacSHA256("aws4_request", kService, TRUE)
  IN  HmacSHA256(stringToSign, kSigning, FALSE)

calculateSignature(key, dateStamp, regionName, serviceName, stringToSign) ==
  LET kDate == HmacSHA256(dateStamp, "AWS4" \o key, TRUE)
      kRegion == HmacSHA256(regionName, kDate, TRUE)
      kService == HmacSHA256(serviceName, kRegion, TRUE)
      kSigning == HmacSHA256("aws4_request", kService, TRUE)
  IN  HmacSHA256(stringToSign, kSigning, FALSE)

\* A Date is the string date.toISOString() gives: YYYY-MM-DDTHH:mm:ss.sssZ.
\* DATE_VALUES_REGEX.exec(iso): the six groups of digits
DATE_VALUES_REGEX(iso) ==
  <<SubSeq(iso, 1, 4), SubSeq(iso, 6, 7), SubSeq(iso, 9, 10),
    SubSeq(iso, 12, 13), SubSeq(iso, 15, 16), SubSeq(iso, 18, 19)>>

getCanonicalFullDate(date) ==
  LET match == DATE_VALUES_REGEX(date)
  IN  match[1] \o match[2] \o match[3] \o "T" \o match[4] \o match[5] \o match[6] \o "Z"

getCanonicalShortDate(date) ==
  LET match == DATE_VALUES_REGEX(date)
  IN  match[1] \o match[2] \o match[3]

\* Object.keys(headers).map(...).map(...).sort(...): the lowercased, trimmed
\* <<key, value>> pairs in ascending key order
CanonicalHeaderPairs(headers) ==
  SortBy(TRUE,
         [i \in 1..Len(headers) |->
            <<ToLowerCase(Trim(headers[i][1])), CollapseSpaces(Trim(headers[i][2]))>>])

getCanonicalRequestHash(method, path, headers, qs, payloadString) ==
  LET pairs == CanonicalHeaderPairs(headers)
      canonicalHeadersStr == Join([i \in 1..Len(pairs) |-> pairs[i][1] \o ":" \o pairs[i][2] \o "\n"], "")
      signedHeadersStr == Join([i \in 1..Len(pairs) |-> pairs[i][1]], ";")
      canonicalRequest ==
        Join(<<method, NormalizedPath(path), qs, canonicalHeadersStr, signedHeadersStr,
               SHA256(payloadString)>>, "\n")
  IN  [hashedCanonicalRequest |-> SHA256(canonicalRequest),
       signedHeaders |-> signedHeadersStr]

HASH_ALGORITHM == "AWS4-HMAC-SHA256"

AWS_SINGLE_ENDPOINT ==
  << <<"cloudfront", "cloudfront.amazonaws.com">>,
     <<"health", "health.us-east-1.amazonaws.com">>,
     <<"iam", "iam.amazonaws.com">>,
     <<"importexport", "importexport.amazonaws.com">>,
     <<"shield", "shield.us-east-1.amazonaws.com">>,
     <<"waf", "waf.amazonaws.com">> >>

\* Lowercase names that a plain object literal inherits from Object.prototype:
\* AWS_SINGLE_ENDPOINT[name] is then a truthy value that is not a string.
InheritedNames == {"constructor", "__proto__"}

InheritedValueText == "function Object()"

EndpointIndex(service) ==
  IF \E i \in 1..Len(AWS_SINGLE_ENDPOINT) : AWS_SINGLE_ENDPOINT[i][1] = service
  THEN CHOOSE i \in 1..Len(AWS_SINGLE_ENDPOINT) : AWS_SINGLE_ENDPOINT[i][1] = service
  ELSE 0

\* (mutant) the single-endpoint table is not consulted
HostOfRegional(service, region) == service \o "." \o region \o ".amazonaws.com"

\* AWS_SINGLE_ENDPOINT[service] ? AWS_SINGLE_ENDPOINT[service]
\*                              : service + '.' + region + '.amazonaws.com'
HostOf(service, region) ==
  IF EndpointIndex(service) > 0 THEN AWS_SINGLE_ENDPOINT[EndpointIndex(service)][2]
  ELSE IF service \in InheritedNames THEN InheritedValueText
  ELSE service \o "." \o region \o ".amazonaws.com"

\* JSON.stringify of a flat object of string properties
JSONStringify(obj) ==
  "{" \o Join([i \in 1..Len(obj) |-> "\"" \o obj[i][1] \o "\":\"" \o obj[i][2] \o "\""], ",") \o "}"

\* A payload: a string, or an object to serialise
StringPayload(s) == [isString |-> TRUE, text |-> s, object |-> <<>>]

ObjectPayload(obj) == [isString |-> FALSE, text |-> "", object |-> obj]

(***************************************************************************)
(* AWS.config                                                              *)
(***************************************************************************)
DefaultConfig ==
  [apiVersions |-> [lambda |-> "2015-03-31"],
   credentials |-> [accessKeyId |-> Some(""), secretAccessKey |-> Some("")],
   region |-> Some("us-west-1")]

(***************************************************************************)
(* AWS.request                                                             *)
(***************************************************************************)
\* What a call did.  kind is "none" (no call yet), "Error" (an assert
\* failed), "TypeError" (a method was read off a value that has none) or
\* "fetch" (UrlFetchApp.fetch was called with uri and fetchHeaders); the
\* other fields are the values the call computed on the way, and headers is
\* the headers object as the call left it.
NoCall ==
  [kind |-> "none", message |-> "", headers |-> <<>>, accessKeyId |-> "",
   secretAccessKey |-> "", service |-> "", region |-> "", host |-> "", method |-> "",
   path |-> "", payloadString |-> "", queryString |-> "", dateStringFull |-> "",
   dateStringShort |-> "", canonicalPairs |-> <<>>, signedHeaders |-> "",
   hashedCanonicalRequest |-> "", credentialScope |-> "", stringToSign |-> "",
   signature |-> "", fetchHeaders |-> <<>>, uri |-> ""]

Thrown(kind, message, headers) ==
  [NoCall EXCEPT !.kind = kind, !.message = message, !.headers = headers]

\* params.region ? params.region.toLowerCase() : AWS.config.region
ResolveRegion(p, cfg) ==
  IF p.region # Undefined /\ p.region # Some("")
  THEN Some(ToLowerCase(p.region[1]))
  ELSE cfg.region

\* The straight-line part of request, from the host on (lines 247-336)
SignAndSend(p, accessKeyId, secretAccessKey, service, region, curDate) ==
  LET path0 == Coalesce(p.path, "/")
      q == Coalesce(p.query, <<>>)
      method == ToUpperCase(Coalesce(p.method, "get"))
      headers0 == Coalesce(p.headers, <<>>)
      payload == Coalesce(p.payload, StringPayload(""))
      host == HostOf(service, region)
      path == IF SubSeq(path0, 1, 1) # "/" THEN "/" \o path0 ELSE path0
      payloadString == IF payload.isString THEN payload.text ELSE JSONStringify(payload.object)
      dateStringFull == getCanonicalFullDate(curDate)
      dateStringShort == getCanonicalShortDate(curDate)
      qs == getCanonicalQueryString(q)
      headers1 == Put(Put(headers0, "Host", host), "X-Amz-Date", dateStringFull)
      temp == getCanonicalRequestHash(method, path, headers1, qs, payloadString)
      credentialScope == dateStringShort \o "/" \o region \o "/" \o service \o "/aws4_request"
      stringToSign ==
        Join(<<HASH_ALGORITHM, dateStringFull, credentialScope, temp.hashedCanonicalRequest>>, "\n")
      signature == calculateSignature(secretAccessKey, dateStringShort, region, service, stringToSign)
      authorization ==
        Join(<<HASH_ALGORITHM \o " Credential=" \o accessKeyId \o "/" \o credentialScope,
               "SignedHeaders=" \o temp.signedHeaders,
               "Signature=" \o signature>>, ", ")
      headers2 == Delete(Put(headers1, "Authorization", authorization), "Host")
  IN  IF EndpointIndex(service) = 0 /\ service \in InheritedNames
      THEN \* header[1].trim is not a function (getCanonicalRequestHash, line 127)
           Thrown("TypeError", "header[1].trim is not a function", headers1)
      ELSE [kind |-> "fetch", message |-> "", headers |-> headers2,
            accessKeyId |-> accessKeyId, secretAccessKey |-> secretAccessKey,
            service |-> service, region |-> region, host |-> host, method |-> method,
            path |-> path, payloadString |-> payloadString, queryString |-> qs,
            dateStringFull |-> dateStringFull, dateStringShort |-> dateStringShort,
            canonicalPairs |-> CanonicalHeaderPairs(headers1),
            signedHeaders |-> temp.signedHeaders,
            hashedCanonicalRequest |-> temp.hashedCanonicalRequest,
            credentialScope |-> credentialScope, stringToSign |-> stringToSign,
            signature |-> signature, fetchHeaders |-> headers2,
            uri |-> "https://" \o host \o path \o (IF qs # "" THEN "?" \o qs ELSE "")]

request(p, cfg, curDate) ==
  LET accessKeyId == IF p.accessKeyId # Undefined THEN p.accessKeyId ELSE cfg.credentials.accessKeyId
      secretAccessKey ==
        IF p.secretAccessKey # Undefined THEN p.secretAccessKey ELSE cfg.credentials.secretAccessKey
      region == ResolveRegion(p, cfg)
      headers0 == Coalesce(p.headers, <<>>)
  IN  IF accessKeyId = Undefined
      THEN Thrown("Error", "AWS access key id not specified", headers0)
      ELSE IF secretAccessKey = Undefined
      THEN Thrown("Error", "AWS secret access key not specified", headers0)
      ELSE IF p.service = Undefined
      THEN \* params.service.toLowerCase() on undefined
           Thrown("TypeError", "Cannot read properties of undefined", headers0)
      ELSE IF region = Undefined
      THEN Thrown("Error", "AWS region not specified", headers0)
      ELSE SignAndSend(p, accessKeyId[1], secretAccessKey[1], ToLowerCase(p.service[1]),
                       region[1], curDate)

(***************************************************************************)
(* The request specification: the application sets AWS.config, a caller    *)
(* holds one RequestParams object and calls AWS.request with it            *)
(***************************************************************************)
MaxCalls == 2

\* getCurrentDate(): the clock readings the model draws from
Dates == {"2015-08-30T12:36:00.000Z", "2026-11-06T07:08:09.123Z"}

Configs ==
  { DefaultConfig,
    [DefaultConfig EXCEPT !.credentials = [accessKeyId |-> Some("AKIDCONFIG"),
                                           secretAccessKey |-> Some("configSecret")],
                          !.region = Some("US-WEST-2")],
    [DefaultConfig EXCEPT !.credentials = [accessKeyId |-> Undefined,
                                           secretAccessKey |-> Undefined],
                          !.region = Undefined] }

HeaderChoices ==
  { Undefined,
    Some(<<>>),
    Some(<< <<"Content-Type", "application/json; charset=utf-8">>, <<"host", "other.example">> >>),
    Some(<< <<"X-Custom", " a  b ">>, <<"x-custom", "c">> >>) }

Shapes ==
  { [path |-> Undefined, query |-> Undefined, method |-> Undefined, payload |-> Undefined],
    [path |-> Some("2015-03-31/functions/my fn"),
     query |-> Some(<< <<"b", Num(2)>>, <<"a", Num(1)>> >>),
     method |-> Some("post"),
     payload |-> Some(ObjectPayload(<< <<"key", "value">> >>))] }

ParamsChoices ==
  { [accessKeyId |-> a, secretAccessKey |-> k, service |-> s, region |-> r,
     path |-> sh.path, query |-> sh.query, method |-> sh.method, headers |-> h,
     payload |-> sh.payload] :
      a \in {Undefined, Some("AKIDEXAMPLE")},
      k \in {Undefined, Some("wJalrXUtnFEMI")},
      s \in {Undefined, Some("lambda"), Some("IAM"), Some("constructor")},
      r \in {Undefined, Some("EU-West-1")},
      h \in HeaderChoices,
      sh \in Shapes }

\* A RequestParams object naming nothing
NoParams ==
  [accessKeyId |-> Undefined, secretAccessKey |-> Undefined, service |-> Undefined,
   region |-> Undefined, path |-> Undefined, query |-> Undefined, method |-> Undefined,
   headers |-> Undefined, payload |-> Undefined]

InitRequest ==
  /\ config = DefaultConfig
  /\ params \in ParamsChoices
  /\ supplied = Coalesce(params.headers, <<>>)
  /\ calls = 0
  /\ outcome = NoCall

\* No caller of AWS.request of its own: a component that only reads AWS.config
InitIdleCaller ==
  /\ config = DefaultConfig
  /\ params = NoParams
  /\ supplied = <<>>
  /\ calls = 0
  /\ outcome = NoCall

\* The embedding application assigns AWS.config, before the caller's requests
\* (request only reads AWS.config, at the time of the call)
SetConfig(c) ==
  /\ calls = 0
  /\ c # config
  /\ config' = c
  /\ outcome' = NoCall
  /\ UNCHANGED <<params, supplied, calls>>

\* AWS.request(params) at clock reading curDate
Request(curDate) ==
  /\ calls < MaxCalls
  /\ outcome' = request(params, config, curDate)
  /\ params' = [params EXCEPT !.headers =
                  IF params.headers = Undefined THEN Undefined ELSE Some(outcome'.headers)]
  /\ calls' = calls + 1
  /\ UNCHANGED <<config, supplied>>

(***************************************************************************)
(* Lambda.invoke                                                           *)
(***************************************************************************)
\* Utilities.base64Encode / base64Decode on the texts the model uses
Base64Pairs ==
  << <<"{\"custom\":\"ctx\"}", "eyJjdXN0b20iOiJjdHgifQ==">>,
     <<"START RequestId", "U1RBUlQgUmVxdWVzdElk">> >>

base64Encode(text) ==
  Base64Pairs[CHOOSE i \in 1..Len(Base64Pairs) : Base64Pairs[i][1] = text][2]

base64Decode(encoded) ==
  Base64Pairs[CHOOSE i \in 1..Len(Base64Pairs) : Base64Pairs[i][2] = encoded][1]

\* JSON.parse on the response bodies the model uses: ok is FALSE where it
\* throws a SyntaxError; isObject tells an object from null and from a string;
\* errorMessage and message are the object's properties of these names.
NotJSON ==
  [ok |-> FALSE, isObject |-> FALSE, errorMessage |-> Undefined, message |-> Undefined]

Parsed(isObject, errorMessage, message) ==
  [ok |-> TRUE, isObject |-> isObject, errorMessage |-> errorMessage, message |-> message]

JSONParse(text) ==
  CASE text = "null" -> Parsed(FALSE, Undefined, Undefined)
    [] text = "\"done\"" -> Parsed(FALSE, Undefined, Undefined)
    [] text = "{}" -> Parsed(TRUE, Undefined, Undefined)
    [] text = "{\"errorMessage\":\"not found\"}" -> Parsed(TRUE, Some("not found"), Undefined)
    [] text = "{\"message\":\"Forbidden\"}" -> Parsed(TRUE, Undefined, Some("Forbidden"))
    [] text = "{\"errorMessage\":\"\",\"message\":\"Forbidden\"}" ->
         Parsed(TRUE, Some(""), Some("Forbidden"))
    [] text = "{\"errorMessage\":\"timed out\",\"message\":\"Forbidden\"}" ->
         Parsed(TRUE, Some("timed out"), Some("Forbidden"))
    [] OTHER -> NotJSON

\* a || b on optional strings: a when it is truthy (present and not empty)
Or(a, b) == IF a # Undefined /\ a # Some("") THEN a ELSE b

\* (mutant) only the upper end of the success range is tested
IsFailureStatusUpperOnly(code) == code > 299

\* result.StatusCode < 200 || result.StatusCode > 299
IsFailureStatus(code) == code < 200 \/ code > 299

\* What a Lambda.invoke call did: kind is "none", "thrown" or "returned";
\* answered tells whether the transport was reached and gave response.
NoResponse == [code |-> 0, headers |-> <<>>, body |-> ""]

NoResult ==
  [StatusCode |-> 0, ExecutedVersion |-> Undefined, LogResult |-> Undefined, Payload |-> NotJSON]

NoInvocation ==
  [kind |-> "none", error |-> "", message |-> "", answered |-> FALSE,
   response |-> NoResponse, result |-> NoResult]

\* Lines 385-421: the RequestParams that invoke builds
InvokeRequestParams(ip, cfg) ==
  LET path == "/" \o cfg.apiVersions.lambda \o "/functions/" \o encodeURI(ip.FunctionName)
                \o "/invocations"
      headers == << <<"Content-Type", "application/json; charset=utf-8">> >>
      q0 == IF ip.ClientContext # Undefined
            THEN << <<"ClientContext", Str(base64Encode(JSONStringify(ip.ClientContext[1])))>> >>
            ELSE <<>>
      q1 == IF ip.InvocationType # Undefined /\ ip.InvocationType # Some("")
            THEN Put(q0, "InvocationType", Str(ip.InvocationType[1])) ELSE q0
      q2 == IF ip.LogType # Undefined /\ ip.LogType # Some("")
            THEN Put(q1, "LogType", Str(ip.LogType[1])) ELSE q1
      q3 == IF ip.Qualifier # Undefined /\ ip.Qualifier # Some("")
            THEN Put(q2, "Qualifier", Str(ip.Qualifier[1])) ELSE q2
  IN  [NoParams EXCEPT !.service = Some("lambda"), !.path = Some(path),
                       !.method = Some("post"), !.headers = Some(headers),
                       !.payload = Some(ip.Payload), !.query = Some(q3)]

\* Lines 425-446: what invoke makes of the transport's response
Interpret(response) ==
  LET respPayload == JSONParse(response.body)
      logResult == IF HasKey(response.headers, "X-Amz-Log-Result")
                   THEN Some(Get(response.headers, "X-Amz-Log-Result")) ELSE Undefined
      result ==
        [StatusCode |-> response.code,
         ExecutedVersion |-> IF HasKey(response.headers, "X-Amz-Executed-Version")
                             THEN Some(Get(response.headers, "X-Amz-Executed-Version"))
                             ELSE Undefined,
         LogResult |-> IF logResult # Undefined /\ logResult # Some("")
                       THEN Some(base64Decode(logResult[1])) ELSE Undefined,
         Payload |-> respPayload]
      message == Or(respPayload.errorMessage, respPayload.message)
  IN  IF ~respPayload.ok
      THEN [NoInvocation EXCEPT !.kind = "thrown", !.error = "SyntaxError",
                                !.message = "Unexpected end of JSON input",
                                !.answered = TRUE, !.response = response]
      ELSE IF IsFailureStatus(result.StatusCode)
      THEN \* new Error(undefined) has the empty message
           [NoInvocation EXCEPT !.kind = "thrown", !.error = "Error",
                                !.message = Coalesce(message, ""),
                                !.answered = TRUE, !.response = response]
      ELSE [NoInvocation EXCEPT !.kind = "returned", !.answered = TRUE,
                                !.response = response, !.result = result]

\* Lambda.invoke(ip): sent is what AWS.request did with the params built
invoke(sent, response) ==
  IF sent.kind # "fetch"
  THEN [NoInvocation EXCEPT !.kind = "thrown", !.error = sent.kind, !.message = sent.message]
  ELSE Interpret(response)

(***************************************************************************)
(* The invocation specification: the application sets AWS.config and calls *)
(* Lambda.invoke; the transport answers with any response of Responses     *)
(***************************************************************************)
InvokeChoices ==
  { [FunctionName |-> f, Payload |-> StringPayload("{}"), ClientContext |-> c,
     InvocationType |-> t, LogType |-> IF t = Undefined THEN Some("Tail") ELSE Undefined,
     Qualifier |-> IF c = Undefined THEN Undefined ELSE Some("PROD")] :
      f \in {"my-function", "arn:aws:lambda:us-west-2:123456789012:function:my fn"},
      c \in {Undefined, Some(<< <<"custom", "ctx">> >>)},
      t \in {Undefined, Some("Event")} }

StatusCodes == {199, 200, 202, 299, 300, 404}

Bodies ==
  { "", "null", "\"done\"", "{}", "{\"errorMessage\":\"not found\"}",
    "{\"message\":\"Forbidden\"}", "{\"errorMessage\":\"\",\"message\":\"Forbidden\"}",
    "{\"errorMessage\":\"timed out\",\"message\":\"Forbidden\"}" }

ResponseHeaders ==
  { <<>>,
    << <<"X-Amz-Executed-Version", "$LATEST">> >>,
    << <<"X-Amz-Executed-Version", "7">>, <<"X-Amz-Log-Result", "U1RBUlQgUmVxdWVzdElk">> >> }

Responses == [code : StatusCodes, headers : ResponseHeaders, body : Bodies]

\* Lambda.invoke(ip) at clock reading curDate; one call runs at a time
Invoke(ip, curDate) ==
  /\ invocation.kind = "none"
  /\ outcome' = request(InvokeRequestParams(ip, config), config, curDate)
  /\ \E response \in Responses : invocation' = invoke(outcome', response)
  /\ UNCHANGED <<config, params, supplied, calls>>

\* The caller has taken the result (or caught the error) of the call
Return ==
  /\ invocation.kind # "none"
  /\ invocation' = NoInvocation
  /\ outcome' = NoCall
  /\ UNCHANGED <<config, params, supplied, calls>>

Init ==
  /\ InitRequest
  /\ InitQuery
  /\ invocation = NoInvocation

Next ==
  \/ \E c \in Configs : SetConfig(c) /\ UNCHANGED <<query, queryString, invocation>>
  \/ \E d \in Dates : Request(d) /\ UNCHANGED <<query, queryString, invocation>>

Spec == Init /\ [][Next]_vars

InitInvoke ==
  /\ InitIdleCaller
  /\ InitQuery
  /\ invocation = NoInvocation

NextInvoke ==
  \/ \E c \in Configs : SetConfig(c) /\ invocation' = NoInvocation /\ UNCHANGED <<query, queryString>>
  \/ \E ip \in InvokeChoices, d \in Dates : Invoke(ip, d) /\ UNCHANGED <<query, queryString>>
  \/ Return /\ UNCHANGED <<query, queryString>>

SpecInvoke == InitInvoke /\ [][NextInvoke]_vars

InitCanonicalizer ==
  /\ InitIdleCaller
  /\ InitQuery
  /\ invocation = NoInvocation

NextQuery ==
  \/ \E k \in QueryKeys, v \in QueryValues :
        QuerySet(k, v) /\ UNCHANGED <<config, params, supplied, calls, outcome, invocation>>
  \/ \E k \in QueryKeys :
        QueryDelete(k) /\ UNCHANGED <<config, params, supplied, calls, outcome, invocation>>
  \/ Canonicalize /\ UNCHANGED <<config, params, supplied, calls, outcome, invocation>>

SpecQuery == InitCanonicalizer /\ [][NextQuery]_vars

(***************************************************************************)
(* Properties                                                              *)
(*                                                                         *)
(* In the request specification AWS.config is assigned only before the     *)
(* calls, so in a state whose outcome is of a call, config and params      *)
(* (its headers apart) are the ones that call read.                        *)
(***************************************************************************)
\* A value someone supplied: neither undefined/null nor the empty placeholder
Supplied(o) == o # Undefined /\ o # Some("")

Keys(obj) == [i \in 1..Len(obj) |-> obj[i][1]]

KeySet(obj) == {obj[i][1] : i \in 1..Len(obj)}

Orderings(n) == {f \in [1..n -> 1..n] : \A i, j \in 1..n : f[i] = f[j] => i = j}

Reordered(seq, f) == [i \in 1..Len(seq) |-> seq[f[i]]]

Ascending(strings) ==
  \A i, j \in 1..Len(strings) : i < j => ~StrLess(strings[j], strings[i])

StrictlyAscending(strings) ==
  \A i, j \in 1..Len(strings) : i < j => StrLess(strings[i], strings[j])

StartsWith(s, prefix) == Len(s) >= Len(prefix) /\ SubSeq(s, 1, Len(prefix)) = prefix

\* The region a call resolves: the explicit param, else the default
ResolvedRegion == IF Supplied(params.region) THEN params.region ELSE config.region

\* C1 (as claimed): a call made while the access key id, the secret access
\* key, the service or the region is supplied neither in params nor in
\* AWS.config throws, and UrlFetchApp.fetch is not called.
C1_MissingConfigurationFails ==
  ( /\ outcome.kind # "none"
    /\ \/ ~Supplied(params.accessKeyId) /\ ~Supplied(config.credentials.accessKeyId)
       \/ ~Supplied(params.secretAccessKey) /\ ~Supplied(config.credentials.secretAccessKey)
       \/ ~Supplied(params.service)
       \/ ~Supplied(params.region) /\ ~Supplied(config.region) )
  => outcome.kind \in {"Error", "TypeError"}

\* C4: the signature in the Authorization header handed to the transport is
\* HMAC(kSigning, stringToSign), kSigning derived from "AWS4" + secret by the
\* date, the region, the service and "aws4_request", in this order, with the
\* region and the service that stand in the credential scope.
C4_SignatureIsDerivedChain ==
  outcome.kind = "fetch" =>
    LET secret == IF params.secretAccessKey # Undefined
                  THEN params.secretAccessKey[1] ELSE config.credentials.secretAccessKey[1]
        kDate == HmacSHA256(outcome.dateStringShort, "AWS4" \o secret, TRUE)
        kRegion == HmacSHA256(outcome.region, kDate, TRUE)
        kService == HmacSHA256(outcome.service, kRegion, TRUE)
        kSigning == HmacSHA256("aws4_request", kService, TRUE)
        scope == outcome.dateStringShort \o "/" \o outcome.region \o "/" \o outcome.service
                   \o "/aws4_request"
    IN  /\ outcome.credentialScope = scope
        /\ HasKey(outcome.fetchHeaders, "Authorization")
        /\ Get(outcome.fetchHeaders, "Authorization") =
             HASH_ALGORITHM \o " Credential=" \o outcome.accessKeyId \o "/" \o scope
               \o ", SignedHeaders=" \o outcome.signedHeaders
               \o ", Signature=" \o HmacSHA256(outcome.stringToSign, kSigning, FALSE)

C4_Witness ==
  /\ outcome.kind = "fetch"
  /\ calls = 2
  /\ outcome.service = "lambda"
  /\ outcome.region = "eu-west-1"
  /\ outcome.secretAccessKey = "wJalrXUtnFEMI"

\* C5: the signed Host header and the host of the URI handed to the transport
\* are the fixed endpoint host when the lowercased service is a
\* single-endpoint service, and {service}.{region}.amazonaws.com otherwise.
C5_HostOfService ==
  outcome.kind = "fetch" =>
    LET service == ToLowerCase(params.service[1])
        host == IF service \in {"cloudfront", "health", "iam", "importexport", "shield", "waf"}
                THEN AWS_SINGLE_ENDPOINT[EndpointIndex(service)][2]
                ELSE service \o "." \o outcome.region \o ".amazonaws.com"
    IN  /\ \E i \in 1..Len(outcome.canonicalPairs) : outcome.canonicalPairs[i] = <<"host", host>>
        /\ StartsWith(outcome.uri, "https://" \o host \o "/")

C5_Witness ==
  /\ outcome.kind = "fetch"
  /\ params.service = Some("IAM")
  /\ params.region = Some("EU-West-1")
  /\ outcome.uri = "https://iam.amazonaws.com/"

\* C7 (as claimed): the canonical headers hold one entry for each distinct
\* lowercased key, in ascending key order, and the signed-headers list is
\* these keys, each once.
C7_HeaderKeysCollapse ==
  outcome.kind = "fetch" =>
    /\ StrictlyAscending(Keys(outcome.canonicalPairs))
    /\ outcome.signedHeaders = Join(Keys(outcome.canonicalPairs), ";")

\* C8 (as claimed): the headers handed to the transport hold no Host header
\* under any letter case, and do hold X-Amz-Date and Authorization.
C8_NoHostHeaderSent ==
  outcome.kind = "fetch" =>
    /\ \A i \in 1..Len(outcome.fetchHeaders) : ToLowerCase(outcome.fetchHeaders[i][1]) # "host"
    /\ HasKey(outcome.fetchHeaders, "X-Amz-Date")
    /\ HasKey(outcome.fetchHeaders, "Authorization")

\* C9 (as claimed): the region of the host, of the credential scope and of
\* the signing key is the lowercased resolved region, whether it comes from
\* the params or from AWS.config.
C9_RegionIsLowercased ==
  outcome.kind = "fetch" =>
    /\ outcome.region = ToLowerCase(ResolvedRegion[1])
    /\ outcome.credentialScope =
         outcome.dateStringShort \o "/" \o ToLowerCase(ResolvedRegion[1]) \o "/"
           \o outcome.service \o "/aws4_request"

\* C10 (as claimed): every call made with the same headers mapping signs the
\* lowercased names of the headers the caller supplied plus host and
\* x-amz-date, and never authorization.
C10_SameSignedHeadersEachCall ==
  (outcome.kind = "fetch" /\ params.headers # Undefined) =>
    /\ KeySet(outcome.canonicalPairs) =
         {ToLowerCase(Trim(k)) : k \in KeySet(supplied)} \cup {"host", "x-amz-date"}
    /\ \A i \in 1..Len(outcome.canonicalPairs) : outcome.canonicalPairs[i][1] # "authorization"

\* C6: the canonical query string is the same for every insertion order of
\* the query's pairs: the encoded key=value tokens in ascending order of the
\* whole token, joined by "&".
C6_QueryOrderIndependent ==
  queryString # Undefined =>
    /\ \A f \in Orderings(Len(query)) :
         getCanonicalQueryString(Reordered(query, f)) = queryString[1]
    /\ \E f \in Orderings(Len(query)) :
         /\ Ascending(Reordered(QueryTokens(query), f))
         /\ queryString[1] = Join(Reordered(QueryTokens(query), f), "&")

C6_Witness ==
  /\ query = << <<"b", Num(2)>>, <<"a", Num(1)>> >>
  /\ queryString = Some("a=1&b=2")

\* The response's status code is outside / inside [200, 299]
StatusOutside == invocation.answered /\ ~(invocation.response.code \in 200..299)

StatusInside == invocation.answered /\ invocation.response.code \in 200..299

\* C2 (as claimed): on a status outside [200, 299] invoke throws, with the
\* body's errorMessage as the message whenever the body has that field.
C2_FailsWithErrorMessageWhenPresent ==
  StatusOutside =>
    /\ invocation.kind = "thrown"
    /\ JSONParse(invocation.response.body).errorMessage # Undefined =>
         invocation.message = JSONParse(invocation.response.body).errorMessage[1]

\* C2 (amended): on a status outside [200, 299] invoke throws and returns no
\* result; the message is the body's errorMessage when that field is present
\* and not empty, and an empty errorMessage gives way to the message field.
C2_FailsWithTruthyErrorMessage ==
  StatusOutside =>
    LET body == JSONParse(invocation.response.body)
    IN  /\ invocation.kind = "thrown"
        /\ invocation.result = NoResult
        /\ Supplied(body.errorMessage) =>
             invocation.error = "Error" /\ invocation.message = body.errorMessage[1]
        /\ (body.errorMessage = Some("") /\ body.message # Undefined) =>
             invocation.error = "Error" /\ invocation.message = body.message[1]

C2_Witness ==
  /\ invocation.kind = "thrown"
  /\ invocation.response.code = 404
  /\ invocation.response.body = "{\"errorMessage\":\"not found\"}"
  /\ invocation.message = "not found"

\* C3 (as claimed): on a status inside [200, 299], whatever the body, invoke
\* returns a result with the response's status code, the executed-version
\* header and the decoded log-tail header (absent when the header is).
C3_ReturnsOnSuccessStatus ==
  StatusInside =>
    /\ invocation.kind = "returned"
    /\ invocation.result.StatusCode = invocation.response.code
    /\ invocation.result.ExecutedVersion =
         ( IF HasKey(invocation.response.headers, "X-Amz-Executed-Version")
           THEN Some(Get(invocation.response.headers, "X-Amz-Executed-Version"))
           ELSE Undefined )
    /\ invocation.result.LogResult =
         ( IF HasKey(invocation.response.headers, "X-Amz-Log-Result")
           THEN Some(base64Decode(Get(invocation.response.headers, "X-Amz-Log-Result")))
           ELSE Undefined )

====
